---- MODULE Spec2Model ----
(***************************************************************************)
(* A model of rculock (src/src/lib.rs): RcuLock<T>, a read-copy-update     *)
(* lock, and RcuGuard<T>, its write handle.                                *)
(*                                                                         *)
(* The lock's slot `inner` is a crossbeam epoch Atomic<Arc<T>>: an atomic  *)
(* pointer to a heap cell (a Box) that holds an Arc<T>.  Every version of  *)
(* the value is one entry of `heap`: the T it carries, the strong count of *)
(* its Arc, and what became of the Box that the slot pointed to.           *)
(* Each thread runs read(), write(), mutations through its guard, the drop *)
(* of its guard and the drop of reader handles, one atomic step (one       *)
(* shared-memory access) at a time.  The slot is one atomic location, so   *)
(* its stores and loads are interleaved in one total order (Spec).         *)
(* SpecRelaxed refines the loads and stores with what Ordering::Relaxed    *)
(* gives: per location coherence for the pointer, and no happens-before    *)
(* for the memory behind it unless the mutex provides one.                 *)
(***************************************************************************)
EXTENDS Integers, Sequences, FiniteSets

\* ------------------------------------------------------------- bounds
NumThreads == 2
MaxWrites == 2
MaxValue == 1
MaxHandles == 2

\* tests.rs: RcuLock::new(5) in `threaded`
InitialDec == 5

Threads == 1..NumThreads
Values == 0..MaxValue
MaxVersions == MaxWrites + 1
Versions == 1..MaxVersions

VARIABLES
    inner,       \* RcuLock.inner: the version the slot points to
    write_lock,  \* RcuLock.write_lock: TRUE while the mutex is locked
    heap,        \* every version allocated so far: [data, strong, box]
    guard,       \* per thread, its RcuGuard: [live, data, from]
    pc,          \* per thread, where it is inside read(), write() or drop
    loaded,      \* per thread, the Shared pointer loaded from the slot (0: none)
    handles,     \* per thread, how many Arc<T> handles it holds on each version
    published,   \* history: the value passed to new(), then each value stored by a drop
    pinned_at,   \* history: per thread, between its pin and its load, how many
                 \* versions existed when its read() began (else 0)
    view         \* per thread, what the memory model lets it see: [synced, read,
                 \* torn]; it changes under SpecRelaxed only

vars == <<inner, write_lock, heap, guard, pc, loaded, handles, published, pinned_at, view>>

NoGuard == [live |-> FALSE, data |-> 0, from |-> 0]

NoHandles == [v \in Versions |-> 0]

\* What a thread can see when it is handed the lock: new() has stored version 1
\* and the lock reached the thread through a synchronising hand-over (spawn,
\* Arc), so version 1 is fully visible to it.  synced: the latest version whose
\* construction happens-before the thread's present; read: the latest version
\* a load of read() gave it (0: none); torn: it has dereferenced a version
\* whose construction does not happen-before the dereference.
InitView == [t \in Threads |-> [synced |-> 1, read |-> 0, torn |-> FALSE]]

\* One version: Owned::new(Arc::new(value)): a Box holding an Arc with strong = 1.
NewVersion(value) == [data |-> value, strong |-> 1, box |-> "slot"]

RECURSIVE SumTo(_, _)
SumTo(f, n) == IF n = 0 THEN 0 ELSE f[n] + SumTo(f, n - 1)

RECURSIVE SumOver(_, _)
SumOver(f, n) == IF n = 0 THEN 0 ELSE f[n] + SumOver(f, n - 1)

\* How many Arc<T> handles read() has returned and the callers still hold,
\* and how many reads are under way.
HandleCount == SumOver([t \in Threads |-> SumTo(handles[t], MaxVersions)], NumThreads)
ReadsUnderWay == Cardinality({t \in Threads : pc[t] \in {"r_pinned", "r_loaded"}})

\* The versions the write() calls begun so far have stored or may still store:
\* the stores done, the guards not yet stored, and the calls inside write() of
\* threads that hold no guard.
WritesBegun ==
    (Len(heap) - 1)
    + Cardinality({t \in Threads : guard[t].live /\ pc[t] \notin {"d_stored", "u_stored"}})
    + Cardinality({t \in Threads :
                      ~guard[t].live /\ pc[t] \in {"w_lock", "w_locked", "w_loaded"}})

\* Atomic::load(Relaxed, &epoch): the pointer the slot holds now.
AtomicLoad == inner

\* Arc::clone: one more strong reference to version v.
ArcClone(h, v) == [h EXCEPT ![v].strong = @ + 1]

\* Arc::drop: one strong reference fewer; the T is freed when none is left
\* (strong = 0).
ArcDrop(h, v) == [h EXCEPT ![v].strong = @ - 1]

\* Atomic::store(Some(Owned), Relaxed) of a fresh version carrying `value`: the
\* slot's pointer is overwritten; the Box it pointed to is neither dropped nor
\* handed to the epoch collector, so it keeps its strong reference for ever.
AtomicStore(h, value) ==
    Append([h EXCEPT ![inner].box = "leaked"], NewVersion(value))

\* new(), were the store of line 49 left out: the slot stays Atomic::null().
Init_NullSlot ==
    \E target \in Values :
        /\ heap = <<NewVersion(target)>>
        /\ inner = 0
        /\ write_lock = FALSE
        /\ guard = [t \in Threads |-> NoGuard]
        /\ pc = [t \in Threads |-> "idle"]
        /\ loaded = [t \in Threads |-> 0]
        /\ handles = [t \in Threads |-> NoHandles]
        /\ published = <<target>>
        /\ pinned_at = [t \in Threads |-> 0]
        /\ view = InitView

\* ------------------------------------------------------------- RcuLock::new
Init ==
    \E target \in Values :
        /\ heap = <<NewVersion(target)>>
        /\ inner = 1
        /\ write_lock = FALSE
        /\ guard = [t \in Threads |-> NoGuard]
        /\ pc = [t \in Threads |-> "idle"]
        /\ loaded = [t \in Threads |-> 0]
        /\ handles = [t \in Threads |-> NoHandles]
        /\ published = <<target>>
        /\ pinned_at = [t \in Threads |-> 0]
        /\ view = InitView

\* ------------------------------------------------------------- RcuLock::read
\* line 58: epoch::pin()
ReadPin(t) ==
    /\ pc[t] = "idle"
    /\ HandleCount + ReadsUnderWay < MaxHandles
    /\ pc' = [pc EXCEPT ![t] = "r_pinned"]
    /\ pinned_at' = [pinned_at EXCEPT ![t] = Len(heap)]
    /\ UNCHANGED <<inner, write_lock, heap, guard, loaded, handles, published, view>>

\* line 59: self.inner.load(Relaxed, &epoch), as it would be were read() to wait
\* for the writer mutex.
ReadLoad_Locked(t) ==
    /\ pc[t] = "r_pinned"
    /\ write_lock = FALSE
    /\ loaded' = [loaded EXCEPT ![t] = AtomicLoad]
    /\ pc' = [pc EXCEPT ![t] = "r_loaded"]
    /\ pinned_at' = [pinned_at EXCEPT ![t] = 0]
    /\ UNCHANGED <<inner, write_lock, heap, guard, handles, published, view>>

\* line 59: self.inner.load(Relaxed, &epoch)
ReadLoad(t) ==
    /\ pc[t] = "r_pinned"
    /\ loaded' = [loaded EXCEPT ![t] = AtomicLoad]
    /\ pc' = [pc EXCEPT ![t] = "r_loaded"]
    /\ pinned_at' = [pinned_at EXCEPT ![t] = 0]
    /\ UNCHANGED <<inner, write_lock, heap, guard, handles, published, view>>

\* line 60: inner.unwrap().deref().deref().clone(): the Arc behind the loaded
\* pointer is cloned and returned; the epoch guard is dropped on return.
ReadClone(t) ==
    /\ pc[t] = "r_loaded"
    /\ heap' = ArcClone(heap, loaded[t])
    /\ handles' = [handles EXCEPT ![t][loaded[t]] = @ + 1]
    /\ loaded' = [loaded EXCEPT ![t] = 0]
    /\ pc' = [pc EXCEPT ![t] = "idle"]
    /\ UNCHANGED <<inner, write_lock, guard, published, pinned_at, view>>

\* The caller drops a handle that read() returned.
HandleDrop(t, v) ==
    /\ pc[t] = "idle"
    /\ handles[t][v] > 0
    /\ heap' = ArcDrop(heap, v)
    /\ handles' = [handles EXCEPT ![t][v] = @ - 1]
    /\ UNCHANGED <<inner, write_lock, guard, pc, loaded, published, pinned_at, view>>

\* ------------------------------------------------------------- RcuLock::write
\* line 68: the thread enters write(); it then waits in self.write_lock.lock().
\* A thread that already holds a guard may call write() again.
WriteCall(t) ==
    /\ pc[t] = "idle"
    /\ WritesBegun < MaxWrites
    /\ pc' = [pc EXCEPT ![t] = "w_lock"]
    /\ UNCHANGED <<inner, write_lock, heap, guard, loaded, handles, published, pinned_at, view>>

\* line 69, were the lock taken without waiting for it to be free.
WriteLock_NoMutex(t) ==
    /\ pc[t] = "w_lock"
    /\ write_lock' = TRUE
    /\ pc' = [pc EXCEPT ![t] = "w_locked"]
    /\ UNCHANGED <<inner, heap, guard, loaded, handles, published, pinned_at, view>>

\* line 69, were the mutex reentrant for the thread that holds the guard.
WriteLock_Reentrant(t) ==
    /\ pc[t] = "w_lock"
    /\ write_lock = FALSE \/ guard[t].live
    /\ write_lock' = TRUE
    /\ pc' = [pc EXCEPT ![t] = "w_locked"]
    /\ UNCHANGED <<inner, heap, guard, loaded, handles, published, pinned_at, view>>

\* line 69: self.write_lock.lock() returns once the mutex is free (parking_lot's
\* Mutex: not reentrant, no poisoning, no error).
WriteLock(t) ==
    /\ pc[t] = "w_lock"
    /\ write_lock = FALSE
    /\ write_lock' = TRUE
    /\ pc' = [pc EXCEPT ![t] = "w_locked"]
    /\ UNCHANGED <<inner, heap, guard, loaded, handles, published, pinned_at, view>>

\* lines 70-71: epoch::pin(); self.inner.load(Relaxed, &epoch)
WriteLoad(t) ==
    /\ pc[t] = "w_locked"
    /\ loaded' = [loaded EXCEPT ![t] = AtomicLoad]
    /\ pc' = [pc EXCEPT ![t] = "w_loaded"]
    /\ UNCHANGED <<inner, write_lock, heap, guard, handles, published, pinned_at, view>>

\* lines 71-76: the T behind the loaded pointer is cloned into the guard's data;
\* the guard, holding the MutexGuard, is returned.
WriteClone(t) ==
    /\ pc[t] = "w_loaded"
    /\ guard' = [guard EXCEPT ![t] =
                    [live |-> TRUE, data |-> heap[loaded[t]].data, from |-> loaded[t]]]
    /\ loaded' = [loaded EXCEPT ![t] = 0]
    /\ pc' = [pc EXCEPT ![t] = "idle"]
    /\ UNCHANGED <<inner, write_lock, heap, handles, published, pinned_at, view>>

\* ------------------------------------------------------------- RcuGuard
\* DerefMut, were the guard to write through to the lock's current version
\* instead of to its own copy.
DerefMut_InPlace(t, val) ==
    /\ pc[t] = "idle"
    /\ guard[t].live
    /\ guard' = [guard EXCEPT ![t].data = val]
    /\ heap' = [heap EXCEPT ![inner].data = val]
    /\ UNCHANGED <<inner, write_lock, pc, loaded, handles, published, pinned_at, view>>

\* lines 86-90: deref_mut gives &mut self.data; the caller writes val into it.
DerefMut(t, val) ==
    /\ pc[t] = "idle"
    /\ guard[t].live
    /\ guard' = [guard EXCEPT ![t].data = val]
    /\ UNCHANGED <<inner, write_lock, heap, pc, loaded, handles, published, pinned_at, view>>

\* Drop, were the new version allocated but the slot left pointing at the old one.
GuardStore_NoSwap(t) ==
    /\ pc[t] = "idle"
    /\ guard[t].live
    /\ heap' = Append(heap, NewVersion(guard[t].data))
    /\ published' = Append(published, guard[t].data)
    /\ pc' = [pc EXCEPT ![t] = "d_stored"]
    /\ UNCHANGED <<inner, write_lock, guard, loaded, handles, pinned_at, view>>

\* Drop, were the staged value written over the current version in place
\* instead of stored as a new version.
GuardStore_Overwrite(t) ==
    /\ pc[t] = "idle"
    /\ guard[t].live
    /\ heap' = [heap EXCEPT ![inner].data = guard[t].data]
    /\ pc' = [pc EXCEPT ![t] = "d_stored"]
    /\ UNCHANGED <<inner, write_lock, guard, loaded, handles, published, pinned_at, view>>

\* Drop, were the replaced Box dropped at once (its Arc with it).
GuardStore_FreeOld(t) ==
    /\ pc[t] = "idle"
    /\ guard[t].live
    /\ heap' = Append(ArcDrop([heap EXCEPT ![inner].box = "dropped"], inner),
                      NewVersion(guard[t].data))
    /\ inner' = Len(heap) + 1
    /\ published' = Append(published, guard[t].data)
    /\ pc' = [pc EXCEPT ![t] = "d_stored"]
    /\ UNCHANGED <<write_lock, guard, loaded, handles, pinned_at, view>>

\* Drop, were the MutexGuard released first and the store left for later.
GuardStore_UnlockFirst(t) ==
    /\ pc[t] = "idle"
    /\ guard[t].live
    /\ write_lock' = FALSE
    /\ pc' = [pc EXCEPT ![t] = "d_stored"]
    /\ UNCHANGED <<inner, heap, guard, loaded, handles, published, pinned_at, view>>

\* lines 101-104: Drop::drop: Owned::new(Arc::new(self.data.clone())) is stored
\* into the lock's slot.
GuardStore(t) ==
    /\ pc[t] = "idle"
    /\ guard[t].live
    /\ heap' = AtomicStore(heap, guard[t].data)
    /\ inner' = Len(heap) + 1
    /\ published' = Append(published, guard[t].data)
    /\ pc' = [pc EXCEPT ![t] = "d_stored"]
    /\ UNCHANGED <<write_lock, guard, loaded, handles, pinned_at, view>>

\* The end of the drop, were the MutexGuard forgotten instead of dropped: the
\* guard is gone and the mutex stays locked.
GuardUnlock_KeepLocked(t) ==
    /\ pc[t] = "d_stored"
    /\ guard' = [guard EXCEPT ![t] = NoGuard]
    /\ pc' = [pc EXCEPT ![t] = "idle"]
    /\ UNCHANGED <<inner, write_lock, heap, loaded, handles, published, pinned_at, view>>

\* The end of the drop, were the staged value stored a second time before the
\* mutex is released.
GuardUnlock_StoreAgain(t) ==
    /\ pc[t] = "d_stored"
    /\ heap' = AtomicStore(heap, guard[t].data)
    /\ inner' = Len(heap) + 1
    /\ published' = Append(published, guard[t].data)
    /\ write_lock' = FALSE
    /\ guard' = [guard EXCEPT ![t] = NoGuard]
    /\ pc' = [pc EXCEPT ![t] = "idle"]
    /\ UNCHANGED <<loaded, handles, pinned_at, view>>

\* After Drop::drop the fields are dropped: _guard (the MutexGuard) unlocks
\* the mutex.
GuardUnlock(t) ==
    /\ pc[t] = "d_stored"
    /\ write_lock' = FALSE
    /\ guard' = [guard EXCEPT ![t] = NoGuard]
    /\ pc' = [pc EXCEPT ![t] = "idle"]
    /\ UNCHANGED <<inner, heap, loaded, handles, published, pinned_at, view>>

Next ==
    \E t \in Threads :
        \/ ReadPin(t)
        \/ ReadLoad(t)
        \/ ReadClone(t)
        \/ \E v \in Versions : HandleDrop(t, v)
        \/ WriteCall(t)
        \/ WriteLock(t)
        \/ WriteLoad(t)
        \/ WriteClone(t)
        \/ \E val \in Values : DerefMut(t, val)
        \/ GuardStore(t)
        \/ GuardUnlock(t)

Spec == Init /\ [][Next]_vars

\* Every thread keeps running: the scheduler of native threads lets every
\* enabled step happen eventually.
FairSpec == Spec /\ WF_vars(Next)

\* ------------------------------------------------------------- tests.rs: threaded
\* lines 27, 39-45: RcuLock::new(5); each writer repeats
\*     let mut guard = data.write(); *guard -= 1; drop(guard);
\* while readers read.
InitDec ==
    /\ heap = <<NewVersion(InitialDec)>>
    /\ inner = 1
    /\ write_lock = FALSE
    /\ guard = [t \in Threads |-> NoGuard]
    /\ pc = [t \in Threads |-> "idle"]
    /\ loaded = [t \in Threads |-> 0]
    /\ handles = [t \in Threads |-> NoHandles]
    /\ published = <<InitialDec>>
    /\ pinned_at = [t \in Threads |-> 0]
    /\ view = InitView

\* line 40: data.write(), by a thread that holds no guard
WriteCallDec(t) ==
    /\ ~guard[t].live
    /\ WriteCall(t)

\* line 41: *guard -= 1, once per guard
Decrement(t) ==
    /\ guard[t].live
    /\ guard[t].data = heap[guard[t].from].data
    /\ DerefMut(t, guard[t].data - 1)

\* line 42: drop(guard), after the decrement
GuardStoreDec(t) ==
    /\ guard[t].live
    /\ guard[t].data = heap[guard[t].from].data - 1
    /\ GuardStore(t)

NextDec ==
    \E t \in Threads :
        \/ ReadPin(t)
        \/ ReadLoad(t)
        \/ ReadClone(t)
        \/ \E v \in Versions : HandleDrop(t, v)
        \/ WriteCallDec(t)
        \/ WriteLock(t)
        \/ WriteLoad(t)
        \/ WriteClone(t)
        \/ Decrement(t)
        \/ GuardStoreDec(t)
        \/ GuardUnlock(t)

SpecDec == InitDec /\ [][NextDec]_vars

\* The threads of `threaded` under a fair scheduler.  A thread inside read(),
\* inside write() past the lock, or inside the drop of its guard goes on (the
\* step is taken once it can be); a thread waiting in lock() gets the mutex if
\* it is free again and again (parking_lot's Mutex is eventually fair); and a
\* thread that owns a guard gets to decrement and to drop it, whatever reads it
\* makes in between (lines 40-42 follow each other).
LiveSpec ==
    /\ SpecDec
    /\ \A t \in Threads :
          /\ SF_vars(WriteLock(t))
          /\ WF_vars(ReadLoad(t) \/ ReadClone(t) \/ WriteLoad(t) \/ WriteClone(t) \/ GuardUnlock(t))
          /\ SF_vars(Decrement(t) \/ GuardStoreDec(t))

\* ------------------------------------------------------------- Ordering::Relaxed
\* The slot is stored and loaded with Ordering::Relaxed (lib.rs:49, 59, 71, 103).
\* Its stores are ordered by the mutex, so its modification order is the order
\* of the versions.  A Relaxed load may yield any version from the latest the
\* thread already knows (by an earlier load, by its own store, by a mutex
\* hand-over) up to the newest.  A Relaxed store publishes the pointer without
\* ordering the writes that built the Box and the Arc before it: only a thread
\* that took the mutex after the storing thread released it, or the storing
\* thread itself, has that construction happen before its dereference.
Max(a, b) == IF a >= b THEN a ELSE b

Known(t) == Max(view[t].synced, view[t].read)

\* line 59, were the slot read without per-location coherence (a plain read
\* of a location that is being overwritten may yield any pointer it ever held).
RlxReadLoad_Incoherent(t) ==
    /\ pc[t] = "r_pinned"
    /\ \E v \in 1..Len(heap) :
          /\ loaded' = [loaded EXCEPT ![t] = v]
          /\ view' = [view EXCEPT ![t].read = v]
    /\ pc' = [pc EXCEPT ![t] = "r_loaded"]
    /\ pinned_at' = [pinned_at EXCEPT ![t] = 0]
    /\ UNCHANGED <<inner, write_lock, heap, guard, handles, published>>

\* line 59: self.inner.load(Relaxed, &epoch)
RlxReadLoad(t) ==
    /\ pc[t] = "r_pinned"
    /\ \E v \in Known(t)..Len(heap) :
          /\ loaded' = [loaded EXCEPT ![t] = v]
          /\ view' = [view EXCEPT ![t].read = v]
    /\ pc' = [pc EXCEPT ![t] = "r_loaded"]
    /\ pinned_at' = [pinned_at EXCEPT ![t] = 0]
    /\ UNCHANGED <<inner, write_lock, heap, guard, handles, published>>

\* line 60: the dereference of the loaded pointer and the Arc clone.  When the
\* construction of the version does not happen-before this thread, the reads
\* of the Box and of the Arc race with the writes that built them: the thread
\* may find them built, or not.  What a thread does with a Box that is not
\* built is not defined: it takes no further step here.
RlxReadClone(t) ==
    /\ pc[t] = "r_loaded"
    /\ ~view[t].torn
    /\ \/ /\ heap' = ArcClone(heap, loaded[t])
          /\ handles' = [handles EXCEPT ![t][loaded[t]] = @ + 1]
          /\ loaded' = [loaded EXCEPT ![t] = 0]
          /\ pc' = [pc EXCEPT ![t] = "idle"]
          /\ UNCHANGED view
       \/ /\ loaded[t] > view[t].synced
          /\ view' = [view EXCEPT ![t].torn = TRUE]
          /\ UNCHANGED <<heap, handles, loaded, pc>>
    /\ UNCHANGED <<inner, write_lock, guard, published, pinned_at>>

\* line 69: lock() acquires: everything the last holder did before it unlocked,
\* its store included, happens-before this thread from here on.
RlxWriteLock(t) ==
    /\ pc[t] = "w_lock"
    /\ write_lock = FALSE
    /\ write_lock' = TRUE
    /\ view' = [view EXCEPT ![t].synced = Len(heap)]
    /\ pc' = [pc EXCEPT ![t] = "w_locked"]
    /\ UNCHANGED <<inner, heap, guard, loaded, handles, published, pinned_at>>

\* lines 101-104: the store of the drop; the storing thread built the version.
RlxGuardStore(t) ==
    /\ pc[t] = "idle"
    /\ guard[t].live
    /\ heap' = AtomicStore(heap, guard[t].data)
    /\ inner' = Len(heap) + 1
    /\ published' = Append(published, guard[t].data)
    /\ view' = [view EXCEPT ![t].synced = Len(heap) + 1]
    /\ pc' = [pc EXCEPT ![t] = "d_stored"]
    /\ UNCHANGED <<write_lock, guard, loaded, handles, pinned_at>>

\* tests.rs line 42: drop(guard), after the decrement
RlxGuardStoreDec(t) ==
    /\ guard[t].live
    /\ guard[t].data = heap[guard[t].from].data - 1
    /\ RlxGuardStore(t)

\* The threads of tests.rs `threaded` (writers that decrement, readers), the
\* slot accessed as Ordering::Relaxed allows.  The values written play no part
\* in what a load may yield.
NextRelaxed ==
    \E t \in Threads :
        \/ ReadPin(t)
        \/ RlxReadLoad(t)
        \/ RlxReadClone(t)
        \/ \E v \in Versions : HandleDrop(t, v)
        \/ WriteCallDec(t)
        \/ RlxWriteLock(t)
        \/ WriteLoad(t)
        \/ WriteClone(t)
        \/ Decrement(t)
        \/ RlxGuardStoreDec(t)
        \/ GuardUnlock(t)

SpecRelaxed == InitDec /\ [][NextRelaxed]_vars

\* ---------------------------------------------------------------------------
\* A thread that panics while it owns a guard.  Unwinding drops the thread's
\* locals, the RcuGuard among them: Drop for RcuGuard runs as on a normal exit
\* (it does not ask thread::panicking()), then the fields are dropped and the
\* MutexGuard unlocks.  parking_lot's Mutex keeps no poison flag.  The thread
\* is gone afterwards.
\* ---------------------------------------------------------------------------

\* a panic in the scope that owns the guard, at any point of its mutations
Panic(t) ==
    /\ pc[t] = "idle"
    /\ guard[t].live
    /\ pc' = [pc EXCEPT ![t] = "panicking"]
    /\ UNCHANGED <<inner, write_lock, heap, guard, loaded, handles, published, pinned_at, view>>

\* lines 100-105, were the drop to publish nothing while the thread panics
UnwindGuardStore_Rollback(t) ==
    /\ pc[t] = "panicking"
    /\ guard[t].live
    /\ pc' = [pc EXCEPT ![t] = "u_stored"]
    /\ UNCHANGED <<inner, heap, published, write_lock, guard, loaded, handles, pinned_at, view>>

\* lines 100-105, run by the unwinding: the store of the staged value
UnwindGuardStore(t) ==
    /\ pc[t] = "panicking"
    /\ guard[t].live
    /\ heap' = AtomicStore(heap, guard[t].data)
    /\ inner' = Len(heap) + 1
    /\ published' = Append(published, guard[t].data)
    /\ pc' = [pc EXCEPT ![t] = "u_stored"]
    /\ UNCHANGED <<write_lock, guard, loaded, handles, pinned_at, view>>

\* line 83: the drop of the field _guard unlocks the mutex; the thread ends
UnwindGuardUnlock(t) ==
    /\ pc[t] = "u_stored"
    /\ write_lock' = FALSE
    /\ guard' = [guard EXCEPT ![t] = NoGuard]
    /\ pc' = [pc EXCEPT ![t] = "dead"]
    /\ UNCHANGED <<inner, heap, loaded, handles, published, pinned_at, view>>

NextUnwind ==
    \E t \in Threads :
        \/ ReadPin(t)
        \/ ReadLoad(t)
        \/ ReadClone(t)
        \/ \E v \in Versions : HandleDrop(t, v)
        \/ WriteCall(t)
        \/ WriteLock(t)
        \/ WriteLoad(t)
        \/ WriteClone(t)
        \/ \E val \in Values : DerefMut(t, val)
        \/ GuardStore(t)
        \/ GuardUnlock(t)
        \/ Panic(t)
        \/ UnwindGuardStore(t)
        \/ UnwindGuardUnlock(t)

SpecUnwind == Init /\ [][NextUnwind]_vars

TypeOK ==
    /\ inner \in 1..Len(heap)
    /\ write_lock \in BOOLEAN
    /\ Len(heap) <= MaxVersions
    /\ Len(published) = Len(heap)
    /\ \A t \in Threads : loaded[t] \in 0..Len(heap)

\* ------------------------------------------------------------- claims
\* A guard is live from the return of write() until its drop has unlocked the
\* mutex; it is staged while its value has not been stored yet.
GuardLive(t) == guard[t].live
Staged(t) == guard[t].live /\ pc[t] # "d_stored"
HoldsToken(t) == guard[t].live \/ pc[t] \in {"w_locked", "w_loaded"}

\* C1: write serialization.  In every reachable state at most one thread holds
\* the writer mutex, hence at most one RcuGuard is live, and while a thread
\* holds it no other thread waiting inside write() can take the lock.
C1_WriteSerialization ==
    /\ Cardinality({t \in Threads : HoldsToken(t)}) <= 1
    /\ Cardinality({t \in Threads : GuardLive(t)}) <= 1
    /\ \A t \in Threads : HoldsToken(t) => write_lock
    /\ \A t, u \in Threads :
          (HoldsToken(t) /\ pc[u] = "w_lock") => ~ENABLED WriteLock(u)

C1_Witness ==
    \E t, u \in Threads :
        /\ t # u
        /\ GuardLive(t)
        /\ guard[t].data # published[guard[t].from]
        /\ pc[u] = "w_lock"

\* C2: read never blocks.  Whatever the state of the writer mutex (a guard
\* live, writers waiting), every step of read() of a thread that is inside
\* read() is enabled, and no step of read() touches the mutex.
C2_ReadEnabled ==
    \A t \in Threads :
        /\ (pc[t] = "idle" /\ HandleCount + ReadsUnderWay < MaxHandles) => ENABLED ReadPin(t)
        /\ pc[t] = "r_pinned" => ENABLED ReadLoad(t)
        /\ pc[t] = "r_loaded" => ENABLED ReadClone(t)

C2_ReadLeavesToken ==
    \A t \in Threads :
        (ReadPin(t) \/ ReadLoad(t) \/ ReadClone(t)) => write_lock' = write_lock

C2_ReadNeverBlocks == [](C2_ReadEnabled) /\ [][C2_ReadLeavesToken]_vars

\* A guard is staged, another thread waits for the mutex, and a thread (the
\* guard's owner or another) is in the middle of read().
C2_Witness ==
    \E t, u, w \in Threads :
        /\ Staged(t)
        /\ w # t
        /\ pc[w] = "w_lock"
        /\ pc[u] = "r_loaded"
        /\ write_lock

\* A thread's step from pinned to loaded: the load of line 59.
LoadStep(u) == pc[u] = "r_pinned" /\ pc'[u] = "r_loaded"

\* C3: snapshot isolation for writers.  While a guard is staged (acquired, its
\* drop not yet begun), whatever has been written through it, the slot still
\* holds the version the guard was cloned from, carrying the value it had then,
\* and every load of read() yields that version and that value.
C3_SlotKeepsSnapshot ==
    \A t \in Threads :
        Staged(t) =>
            /\ inner = guard[t].from
            /\ heap[inner].data = published[guard[t].from]

C3_ReadSeesSnapshot ==
    \A t, u \in Threads :
        (Staged(t) /\ LoadStep(u)) =>
            /\ loaded'[u] = guard[t].from
            /\ heap'[loaded'[u]].data = published[guard[t].from]

C3_SnapshotIsolation == [](C3_SlotKeepsSnapshot) /\ [][C3_ReadSeesSnapshot]_vars

C3_Witness ==
    \E t, u \in Threads :
        /\ Staged(t)
        /\ guard[t].data # published[guard[t].from]
        /\ pc[u] = "r_loaded"
        /\ loaded[u] = guard[t].from
        /\ heap[loaded[u]].data # guard[t].data

\* C4: atomic publish.  A read() that begins when k versions have been stored
\* loads version k or a later one, and the value behind the version it loads
\* is exactly the value that version's guard staged when it was dropped.
C4_ReadSeesPublished ==
    \A u \in Threads :
        LoadStep(u) =>
            /\ loaded'[u] >= pinned_at[u]
            /\ pinned_at[u] >= 1
            /\ heap'[loaded'[u]].data = published[loaded'[u]]

C4_AtomicPublish == [][C4_ReadSeesPublished]_vars

C4_Witness ==
    \E u \in Threads :
        /\ pc[u] = "r_loaded"
        /\ loaded[u] = Len(heap)
        /\ Len(heap) >= 3
        /\ published[Len(heap)] # published[Len(heap) - 1]
        /\ \A t \in Threads : ~GuardLive(t)

\* C5: no lost updates (under SpecDec: writers that each decrement once per
\* guard).  Once no guard is live, the slot holds the latest version and its
\* value is the initial value minus the number of drops done; a read that
\* loads then gets that value.
C5_NoLostUpdates ==
    (\A t \in Threads : ~GuardLive(t)) =>
        /\ inner = Len(heap)
        /\ heap[inner].data = InitialDec - (Len(published) - 1)
        /\ \A u \in Threads :
              (pc[u] = "r_loaded" /\ loaded[u] = inner) =>
                  heap[loaded[u]].data = InitialDec - (Len(published) - 1)

C5_Witness ==
    \E u \in Threads :
        /\ \A t \in Threads : ~GuardLive(t)
        /\ Len(published) >= 3
        /\ pc[u] = "r_loaded"
        /\ loaded[u] = inner
        /\ heap[loaded[u]].data = InitialDec - 2

\* C6: reader handle stability.  Across every step, the value behind a
\* version on which some thread holds a handle is unchanged and the version
\* stays allocated.
C6_HeldUnchanged ==
    \A t \in Threads : \A v \in 1..Len(heap) :
        (handles[t][v] > 0 /\ handles'[t][v] > 0) =>
            /\ heap'[v].data = heap[v].data
            /\ heap'[v].strong > 0

C6_HandleStability == [][C6_HeldUnchanged]_vars

C6_Witness ==
    \E t \in Threads :
        /\ handles[t][1] > 0
        /\ inner >= 3
        /\ heap[inner].data # heap[1].data
        /\ heap[2].data # heap[1].data

\* C7: a read returns the initial value or a value as staged at a drop.  The
\* value behind every version a reader has loaded or holds a handle on is the
\* value passed to new() (version 1) or the value its guard staged at the
\* moment it was dropped.
Referenced(t, v) ==
    \/ handles[t][v] > 0
    \/ pc[t] = "r_loaded" /\ loaded[t] = v

C7_ReadsPublishedOnly ==
    \A t \in Threads : \A v \in 1..Len(heap) :
        Referenced(t, v) => heap[v].data = published[v]

C7_Witness ==
    \E t, u \in Threads :
        /\ Staged(t)
        /\ \A v \in 1..Len(published) : guard[t].data # published[v]
        /\ pc[u] = "r_loaded"
        /\ loaded[u] = inner

\* C8: no use after reclaim.  The slot's version, every version a handle
\* refers to and every version whose pointer a thread has loaded and is about
\* to dereference is allocated: its Box has not been dropped and its Arc has
\* a strong reference left.
InUse(v) ==
    \/ inner = v
    \/ \E t \in Threads : handles[t][v] > 0
    \/ \E t \in Threads : pc[t] \in {"r_loaded", "w_loaded"} /\ loaded[t] = v

C8_NoUseAfterReclaim ==
    \A v \in 1..Len(heap) :
        InUse(v) => (heap[v].strong > 0 /\ heap[v].box # "dropped")

C8_Witness ==
    \E u \in Threads :
        /\ pc[u] = "r_loaded"
        /\ loaded[u] # inner
        /\ \A t \in Threads : handles[t][loaded[u]] = 0

\* C9: eventual reclamation.  Every version that has been replaced in the slot
\* and that no handle and no loaded pointer refers to is eventually freed.
Superseded(v) == v <= Len(heap) /\ v # inner /\ ~InUse(v)
Freed(v) == v <= Len(heap) /\ heap[v].strong = 0

C9_EventualReclamation ==
    \A v \in Versions : [](Superseded(v) => <>Freed(v))

\* C10: a recursive write() deadlocks.  A thread that calls write() while it
\* holds a live guard stays inside that call for ever; the mutex stays locked,
\* every other thread waiting inside write() stays waiting, and the steps of
\* read() of the other threads stay enabled.
Stuck(t) == pc[t] = "w_lock" /\ guard[t].live

C10_StuckForEver ==
    \A t \in Threads :
        Stuck(t) =>
            /\ Stuck(t)'
            /\ write_lock'
            /\ \A u \in Threads : pc[u] = "w_lock" => pc'[u] = "w_lock"

C10_OthersRead ==
    \A t, u \in Threads :
        (Stuck(t) /\ u # t) =>
            /\ ~ENABLED WriteLock(t)
            /\ pc[u] = "r_pinned" => ENABLED ReadLoad(u)
            /\ pc[u] = "r_loaded" => ENABLED ReadClone(u)

C10_RecursiveWriteDeadlocks == [](C10_OthersRead) /\ [][C10_StuckForEver]_vars

C10_Witness ==
    \E t, u \in Threads :
        /\ u # t
        /\ Stuck(t)
        /\ pc[u] = "w_lock"

\* C11: blocked writers make progress.  Under LiveSpec, whose fairness makes
\* every thread that obtains a guard eventually drop it, every thread that
\* waits inside write() without holding a guard eventually obtains its guard.
Waiting(t) == pc[t] = "w_lock" /\ ~guard[t].live

C11_WritersProgress == \A t \in Threads : Waiting(t) ~> GuardLive(t)

\* A thread waits inside write() while another thread's guard, already
\* stored, is about to release the mutex.
C11_Witness ==
    \E t, u \in Threads :
        /\ t # u
        /\ Waiting(t)
        /\ pc[u] = "d_stored"
        /\ write_lock

\* C12: writes are totally ordered by token acquisition.  A thread that holds
\* the token sees every earlier store in the slot; its guard is cloned from the
\* latest version, carrying the value last published; its store appends the
\* next version with the value it staged, so the values the slot takes are the
\* release values, each guard cloned from its predecessor's release.
StoreStep(t) == pc[t] = "idle" /\ pc'[t] = "d_stored"

C12_HolderSeesAll ==
    \A t \in Threads :
        /\ (pc[t] \in {"w_locked", "w_loaded"} /\ ~GuardLive(t)) => inner = Len(heap)
        /\ (pc[t] = "w_loaded" /\ ~GuardLive(t)) => loaded[t] = Len(heap)
        /\ Staged(t) =>
              /\ guard[t].from = Len(heap)
              /\ inner = Len(heap)
        /\ (GuardLive(t) /\ pc[t] = "d_stored") =>
              /\ inner = guard[t].from + 1
              /\ inner = Len(heap)
              /\ heap[inner].data = guard[t].data

C12_StoresInOrder ==
    /\ \A t \in Threads :
          StoreStep(t) =>
              /\ inner' = guard[t].from + 1
              /\ published' = Append(published, guard[t].data)
              /\ heap'[inner'].data = guard[t].data
    /\ \A t \in Threads :
          (pc[t] = "w_loaded" /\ pc'[t] = "idle") =>
              guard'[t].data = published[Len(published)]
    /\ inner' # inner => inner' = inner + 1

C12_TotalOrder == [](C12_HolderSeesAll) /\ [][C12_StoresInOrder]_vars

C12_Witness ==
    /\ \A t \in Threads : ~GuardLive(t) /\ pc[t] = "idle"
    /\ inner = 3
    /\ published[2] # published[1]
    /\ published[3] # published[2]
    /\ heap[inner].data = published[3]

\* C13: publish precedes token release.  While a guard's value is staged and
\* not yet stored the mutex is locked and no other thread holds it; when the
\* drop reaches the release of the mutex the staged value is already the
\* slot's; the mutex is free only when no guard has an unpublished value.
C13_UnpublishedImpliesLocked ==
    /\ \A t \in Threads :
          Staged(t) =>
              /\ write_lock
              /\ \A u \in Threads : u # t => ~HoldsToken(u)
    /\ \A t \in Threads :
          pc[t] = "d_stored" =>
              /\ write_lock
              /\ inner = Len(heap)
              /\ heap[inner].data = guard[t].data
              /\ published[Len(published)] = guard[t].data
    /\ ~write_lock => \A t \in Threads : ~GuardLive(t)

C13_UnlockAfterStore ==
    \A t \in Threads :
        (write_lock /\ ~write_lock' /\ GuardLive(t)) =>
            /\ pc[t] = "d_stored"
            /\ inner = guard[t].from + 1
            /\ heap[inner].data = guard[t].data

C13_PublishBeforeRelease ==
    [](C13_UnpublishedImpliesLocked) /\ [][C13_UnlockAfterStore]_vars

C13_Witness ==
    \E t, u \in Threads :
        /\ t # u
        /\ pc[t] = "d_stored"
        /\ guard[t].data # published[guard[t].from]
        /\ pc[u] = "w_lock"
        /\ ~GuardLive(u)

\* C14: exactly one atomic store per write.  The slot changes only in the step
\* that begins the drop of a staged guard; that step stores one new version
\* carrying the staged value of that moment (mutated or not); write(), the
\* mutations and the rest of the drop leave the slot and every stored value
\* as they are.
SlotChanged == inner' # inner \/ Len(heap') # Len(heap) \/ published' # published

C14_OneStorePerWrite ==
    /\ SlotChanged =>
          \E t \in Threads :
              /\ Staged(t)
              /\ StoreStep(t)
              /\ Len(heap') = Len(heap) + 1
              /\ inner' = Len(heap')
              /\ heap'[inner'].data = guard[t].data
              /\ published' = Append(published, guard[t].data)
    /\ \A t \in Threads : (Staged(t) /\ ~Staged(t)') => SlotChanged
    /\ \A t \in Threads : (~GuardLive(t) /\ GuardLive(t)') => ~SlotChanged
    /\ \A t \in Threads : (GuardLive(t) /\ guard'[t].data # guard[t].data) => ~SlotChanged
    /\ \A v \in 1..Len(heap) : heap'[v].data = heap[v].data

C14_ExactlyOneStore == [][C14_OneStorePerWrite]_vars

\* A guard that was never written through has been stored: the new version
\* carries a value equal to the one it replaced.
C14_Witness ==
    \E t \in Threads :
        /\ pc[t] = "d_stored"
        /\ inner = guard[t].from + 1
        /\ heap[inner].data = heap[guard[t].from].data
        /\ Len(heap) = 3

\* C15: the slot is never empty.  The slot points to an allocated version,
\* exactly one version is the one the slot points to, and every pointer a
\* thread has loaded in read() or write() is non-null, so unwrap() succeeds.
C15_SlotNeverEmpty ==
    /\ inner \in 1..Len(heap)
    /\ heap[inner].box = "slot"
    /\ Cardinality({v \in 1..Len(heap) : heap[v].box = "slot"}) = 1
    /\ \A t \in Threads :
          pc[t] \in {"r_loaded", "w_loaded"} => loaded[t] \in 1..Len(heap)

C15_Witness ==
    \E t, u \in Threads :
        /\ pc[t] = "r_loaded"
        /\ pc[u] = "w_loaded"
        /\ loaded[t] = 1
        /\ loaded[u] = 2
        /\ heap[1].box = "leaked"

\* C16: only the token holder stores.  Every change of the slot is made by the
\* one thread that holds the mutex, in the drop of its guard; so from the
\* moment a guard is built until its own store the slot keeps pointing to the
\* version the guard was cloned from.
C16_StoreByHolder ==
    /\ inner' # inner =>
          /\ write_lock
          /\ \E t \in Threads :
                /\ GuardLive(t)
                /\ StoreStep(t)
                /\ inner = guard[t].from
                /\ \A u \in Threads : u # t => (~HoldsToken(u) /\ pc'[u] = pc[u])
    /\ \A t \in Threads :
          (Staged(t) /\ Staged(t)') =>
              /\ inner' = inner
              /\ heap'[inner'].data = heap[inner].data
    /\ \A t \in Threads :
          (pc[t] = "w_loaded" /\ ~GuardLive(t)) => inner' = loaded[t]

C16_OnlyHolderStores == [][C16_StoreByHolder]_vars

C16_Witness ==
    \E t, u \in Threads :
        /\ u # t
        /\ pc[t] = "d_stored"
        /\ guard[t].data # published[guard[t].from]
        /\ pc[u] = "r_loaded"
        /\ loaded[u] = guard[t].from

\* C17: Relaxed ordering is sufficient.  No thread ever dereferences a version
\* it loaded from the slot before that version's construction is visible to
\* it: no read observes a partially constructed value.
C17_RelaxedSufficient == \A t \in Threads : ~view[t].torn

\* C18: per-thread monotonic reads (under SpecRelaxed).  Every load of read()
\* yields a version at least as late as the one the thread's previous read()
\* got, and as every version the thread stored or synchronised with.
C18_LoadsMonotonic ==
    \A t \in Threads :
        LoadStep(t) =>
            /\ loaded'[t] >= view[t].read
            /\ loaded'[t] >= view[t].synced
            /\ view'[t].read = loaded'[t]

C18_MonotonicReads == [][C18_LoadsMonotonic]_vars

\* A thread that read version 2 before reads again while version 3 is the
\* slot's: it gets version 2 or 3.
C18_Witness ==
    \E t \in Threads :
        /\ pc[t] = "r_loaded"
        /\ loaded[t] = 2
        /\ inner = 3
        /\ view[t].synced = 1
        /\ handles[t][2] > 0

\* C19: no rollback on abnormal exit.  Whenever a guard goes away, by a normal
\* drop or by the unwinding of a thread that panicked with its mutations
\* partly applied, the slot then holds a version stored after the one the
\* guard was cloned from, with the guard's staged value as it was, and the
\* mutex is free.  The mutex is only ever held by a thread that is still to
\* release it: a dead thread holds no guard, and a waiting writer can take a
\* free mutex whatever happened to the threads before it.
C19_DropPublishes ==
    \A t \in Threads :
        (guard[t].live /\ ~guard'[t].live) =>
            /\ inner' = Len(heap')
            /\ inner' > guard[t].from
            /\ heap'[inner'].data = guard[t].data
            /\ published'[inner'] = guard[t].data
            /\ write_lock' = FALSE

C19_NeverPoisoned ==
    /\ \A t \in Threads : pc[t] = "dead" => ~guard[t].live
    /\ write_lock => \E t \in Threads : HoldsToken(t) /\ pc[t] # "dead"
    /\ \A t \in Threads : (Waiting(t) /\ ~write_lock) => ENABLED WriteLock(t)

C19_NoRollback == [](C19_NeverPoisoned) /\ [][C19_DropPublishes]_vars

\* A thread panicked holding a guard whose staged value differed from the
\* version it was cloned from; its value is the slot's, and another thread
\* has taken the mutex since and cloned that value.
C19_Witness ==
    \E t, u \in Threads :
        /\ pc[t] = "dead"
        /\ Len(published) = 2
        /\ published[2] # published[1]
        /\ GuardLive(u)
        /\ guard[u].from = 2
        /\ guard[u].data = published[2]

====
